---- MODULE Spec2Model ----
(***************************************************************************)
(* A model of the shrdlite blocks-world interpreter and planner:           *)
(*   - the physical-law check of the goal compiler (obeyesPhysicalLaws)    *)
(*     and of the state graph (StateGraph.isValidStack),                   *)
(*   - the goal compiler (interpretCommand) with its object resolver,      *)
(*   - the state graph (StateNode, StateGraph.outgoingEdges),              *)
(*   - the A* search (aStarSearch) over that graph.                        *)
(* JavaScript values are modelled as follows: `undefined`/`null` are the   *)
(* strings Undefined and Null, a thrown TypeError is the string TypeError, *)
(* a boolean returned by a function that may also throw is one of the      *)
(* strings "true" and "false".                                             *)
(***************************************************************************)
EXTENDS Integers, Sequences, FiniteSets, TLC

VARIABLES
    objects,          \* state.objects / StateGraph.objects: key -> definition
    literal,          \* the literal handed to the physical-law check
    lawsResult,       \* what obeyesPhysicalLaws made of it
    lawsResultGraph,  \* what the Graph.ts copy of obeyesPhysicalLaws made of it
    stackResult,      \* what isValidStack made of the stack the literal describes
    stacks,           \* state.stacks: the world's columns, each bottom first
    holding,          \* state.holding: the held object, or Null
    cmd,              \* the parsed command handed to interpretCommand
    interpretation,   \* what interpretCommand returned or threw
    interpretationTs, \* what the interpretCommand of Interpreter.ts returned
    parses,           \* interpret: the candidate parses, each a command
    interpreted,      \* what interpret returned or threw
    arm,              \* state.arm: the column the arm is over
    planned,          \* what Planner.plan returned or threw
    planPath,         \* planInterpretation: the path its loop walks over
    synthesized,      \* the plan that loop built, or the TypeError it threw
    finished,         \* that plan as Planner.plan hands it to its caller
    pathAfter,        \* the nodes of planPath as that loop left them
    nodeA,            \* a StateNode the search keeps in its collections
    nodeB,            \* a StateNode looked up in those collections
    sameEntry,        \* what each collection made of nodeB beside nodeA
    relationResult,   \* what hasRelation made of the literal
    runA,             \* how one run of aStarSearch on start and goal ended
    runB,             \* how another run on the same arguments ended
    walkNode,         \* the StateNode a walk over the state graph stands on
    walkError,        \* whether outgoingEdges threw on that node
    walkSteps,        \* how many edges the walk has followed
    start,            \* aStarSearch: the start node
    goal,             \* aStarSearch: the goal predicate, as a goal formula
    heuristics,       \* aStarSearch: the heuristic function, by name
    timeout,          \* aStarSearch: the timeout argument, in seconds
    elapsed,          \* milliseconds between startTime and the latest clock reading
    cost,             \* Dictionary: toString(node) -> cost so far
    fScore,           \* Dictionary: toString(node) -> cost so far + heuristic
    visitedNodes,     \* Set of toString(node)
    pendingNodes,     \* PriorityQueue: the array of its heap
    cameFrom,         \* Dictionary: toString(node) -> predecessor node
    result,           \* what aStarSearch returned or threw
    pc                \* where aStarSearch stands: in its loop, or how it left

lawVars == <<literal, lawsResult, lawsResultGraph, stackResult>>
interpVars == <<stacks, holding, cmd, interpretation, interpretationTs>>
plannerVars == <<parses, interpreted, arm, planned, planPath, synthesized, finished,
                 pathAfter>>
evalVars == <<nodeA, nodeB, sameEntry, relationResult, runA, runB>>
walkVars == <<walkNode, walkError, walkSteps>>
searchVars == <<start, goal, heuristics, timeout, elapsed, cost, fScore,
                visitedNodes, pendingNodes, cameFrom, result, pc>>
vars == <<objects, lawVars, interpVars, walkVars, searchVars, plannerVars, evalVars>>

Undefined == "undefined"
Null == "null"
TypeError == "TypeError"
Floor == "floor"

\* The vocabulary of the world's object definitions.
Forms == {"ball", "box", "table", "brick", "plank", "pyramid"}
Sizes == {"small", "large"}
Relations == {"ontop", "inside", "above", "below", "leftof", "rightof", "beside"}

Bool(b) == IF b THEN "true" ELSE "false"

\* state.objects[id]: the definition's reference, or undefined for a key the
\* table does not hold (the floor sentinel has no entry in the table).
Ref(objs, id) == IF id \in DOMAIN objs THEN id ELSE Undefined

(***************************************************************************)
(* The physical laws.                                                      *)
(***************************************************************************)

\* Mutant of obeyesPhysicalLaws: the identity check `a == b` is dropped.
obeyesPhysicalLaws_NoIdentity(objs, lit) ==
    LET x == lit.args[1]
        y == lit.args[2]
        rel == lit.relation
    IN  IF y = Floor /\ rel = "ontop" THEN "true"
        ELSE IF Ref(objs, x) = Undefined THEN TypeError
        ELSE IF rel \in {"inside", "ontop"} /\ Ref(objs, y) = Undefined THEN TypeError
        ELSE IF Ref(objs, y) = Undefined THEN "true"
        ELSE LET a == objs[x]
                 b == objs[y]
             IN IF (rel = "inside" /\ b.form = "box") \/ (rel = "ontop" /\ b.form # "box")
                THEN Bool(~(  (a.size = "large" /\ b.size = "small")
                           \/ b.form = "ball"
                           \/ (a.form = "ball" /\ b.form = "table")
                           \/ (b.form = "box" /\ b.size = a.size
                               /\ a.form \in {"pyramid", "plank", "box"})
                           \/ (a.form = "box" /\ a.size = "small"
                               /\ (b.form = "pyramid" \/ (b.form = "brick" /\ b.size = "small")))
                           \/ (a.form = "box" /\ a.size = "large"
                               /\ b.form = "pyramid" /\ b.size = "large")))
                ELSE "true"

\* Mutant of obeyesPhysicalLaws: the six rules are applied whatever the
\* relation is.
obeyesPhysicalLaws_AnyRelation(objs, lit) ==
    LET x == lit.args[1]
        y == lit.args[2]
        rel == lit.relation
    IN  IF y = Floor /\ rel = "ontop" THEN "true"
        ELSE IF Ref(objs, x) = Ref(objs, y) THEN "false"
        ELSE IF Ref(objs, x) = Undefined \/ Ref(objs, y) = Undefined THEN TypeError
        ELSE LET a == objs[x]
                 b == objs[y]
             IN Bool(~(  (a.size = "large" /\ b.size = "small")
                      \/ b.form = "ball"
                      \/ (a.form = "ball" /\ b.form = "table")
                      \/ (b.form = "box" /\ b.size = a.size
                          /\ a.form \in {"pyramid", "plank", "box"})
                      \/ (a.form = "box" /\ a.size = "small"
                          /\ (b.form = "pyramid" \/ (b.form = "brick" /\ b.size = "small")))
                      \/ (a.form = "box" /\ a.size = "large"
                          /\ b.form = "pyramid" /\ b.size = "large")))

\* obeyesPhysicalLaws of the goal compiler. lit.args[1], lit.args[2]
\* are the source's args[0], args[1].
obeyesPhysicalLaws(objs, lit) ==
    LET x == lit.args[1]
        y == lit.args[2]
        rel == lit.relation
    IN  IF y = Floor /\ rel = "ontop" THEN "true"
        ELSE IF Ref(objs, x) = Ref(objs, y) THEN "false"          \* a == b
        ELSE IF Ref(objs, x) = Undefined THEN TypeError           \* a.form of undefined
        ELSE IF objs[x].form = "floor" THEN "false"
        ELSE IF rel \in {"inside", "ontop"} /\ Ref(objs, y) = Undefined
             THEN TypeError                                       \* b.form of undefined
        ELSE IF Ref(objs, y) = Undefined THEN "true"
        ELSE LET a == objs[x]
                 b == objs[y]
             IN IF (rel = "inside" /\ b.form = "box") \/ (rel = "ontop" /\ b.form # "box")
                THEN LET cond1 == a.size = "large" /\ b.size = "small"
                         cond2 == b.form = "ball"
                         cond3 == a.form = "ball" /\ b.form = "table"
                         cond4 == b.form = "box" /\ b.size = a.size
                                  /\ (a.form = "pyramid" \/ a.form = "plank" \/ a.form = "box")
                         cond5 == a.form = "box" /\ a.size = "small"
                                  /\ (b.form = "pyramid" \/ (b.form = "brick" /\ b.size = "small"))
                         cond6 == a.form = "box" /\ a.size = "large"
                                  /\ (b.form = "pyramid" /\ b.size = "large")
                     IN IF cond1 \/ cond2 \/ cond3 \/ cond4 \/ cond5 \/ cond6
                        THEN "false" ELSE "true"
                ELSE "true"

\* The earlier copy of obeyesPhysicalLaws kept in Graph.ts: the six rules are
\* applied to every ontop and inside literal.
obeyesPhysicalLawsGraphTs(objs, lit) ==
    LET x == lit.args[1]
        y == lit.args[2]
        rel == lit.relation
    IN  IF y = Floor /\ rel = "ontop" THEN "true"
        ELSE IF Ref(objs, x) = Ref(objs, y) THEN "false"          \* a == b
        ELSE IF rel = "inside" \/ rel = "ontop"
             THEN IF Ref(objs, x) = Undefined \/ Ref(objs, y) = Undefined
                  THEN TypeError                                  \* a.size, b.form of undefined
                  ELSE LET a == objs[x]
                           b == objs[y]
                           cond1 == a.size = "large" /\ b.size = "small"
                           cond2 == b.form = "ball"
                           cond3 == a.form = "ball" /\ b.form = "table"
                           cond4 == b.form = "box" /\ b.size = a.size
                                    /\ (a.form = "pyramid" \/ a.form = "plank" \/ a.form = "box")
                           cond5 == a.form = "box" /\ a.size = "small"
                                    /\ (b.form = "pyramid" \/ (b.form = "brick" /\ b.size = "small"))
                           cond6 == a.form = "box" /\ a.size = "large"
                                    /\ (b.form = "pyramid" /\ b.size = "large")
                       IN IF cond1 \/ cond2 \/ cond3 \/ cond4 \/ cond5 \/ cond6
                          THEN "false" ELSE "true"
             ELSE "true"

\* A faulty variant of isValidStack: it lets anything rest on a ball.
isValidStack_NoBallRule(objs, stack) ==
    IF Len(stack) <= 1 THEN "true"
    ELSE IF Ref(objs, stack[Len(stack)]) = Undefined
            \/ Ref(objs, stack[Len(stack) - 1]) = Undefined
         THEN TypeError
    ELSE LET a == objs[stack[Len(stack)]]
             b == objs[stack[Len(stack) - 1]]
             cond1 == a.size = "large" /\ b.size = "small"
             cond3 == a.form = "ball" /\ b.form = "table"
             cond4 == b.form = "box" /\ b.size = a.size
                      /\ (a.form = "pyramid" \/ a.form = "plank" \/ a.form = "box")
             cond5 == a.form = "box" /\ a.size = "small"
                      /\ (b.form = "pyramid" \/ (b.form = "brick" /\ b.size = "small"))
             cond6 == a.form = "box" /\ a.size = "large"
                      /\ (b.form = "pyramid" /\ b.size = "large")
         IN Bool(~(cond1 \/ cond3 \/ cond4 \/ cond5 \/ cond6))

\* A faulty variant of isValidStack: it lets a large object rest on a small one.
isValidStack_NoSizeRule(objs, stack) ==
    IF Len(stack) <= 1 THEN "true"
    ELSE IF Ref(objs, stack[Len(stack)]) = Undefined
            \/ Ref(objs, stack[Len(stack) - 1]) = Undefined
         THEN TypeError
    ELSE LET a == objs[stack[Len(stack)]]
             b == objs[stack[Len(stack) - 1]]
             cond2 == b.form = "ball"
             cond3 == a.form = "ball" /\ b.form = "table"
             cond4 == b.form = "box" /\ b.size = a.size
                      /\ (a.form = "pyramid" \/ a.form = "plank" \/ a.form = "box")
             cond5 == a.form = "box" /\ a.size = "small"
                      /\ (b.form = "pyramid" \/ (b.form = "brick" /\ b.size = "small"))
             cond6 == a.form = "box" /\ a.size = "large"
                      /\ (b.form = "pyramid" /\ b.size = "large")
         IN Bool(~(cond2 \/ cond3 \/ cond4 \/ cond5 \/ cond6))

\* StateGraph.isValidStack: may the top element rest on the one below it?
\* `stack` is a sequence, bottom first.
isValidStack(objs, stack) ==
    IF Len(stack) <= 1 THEN "true"
    ELSE IF Ref(objs, stack[Len(stack)]) = Undefined
            \/ Ref(objs, stack[Len(stack) - 1]) = Undefined
         THEN TypeError
    ELSE LET a == objs[stack[Len(stack)]]
             b == objs[stack[Len(stack) - 1]]
             cond1 == a.size = "large" /\ b.size = "small"
             cond2 == b.form = "ball"
             cond3 == a.form = "ball" /\ b.form = "table"
             cond4 == b.form = "box" /\ b.size = a.size
                      /\ (a.form = "pyramid" \/ a.form = "plank" \/ a.form = "box")
             cond5 == a.form = "box" /\ a.size = "small"
                      /\ (b.form = "pyramid" \/ (b.form = "brick" /\ b.size = "small"))
             cond6 == a.form = "box" /\ a.size = "large"
                      /\ (b.form = "pyramid" /\ b.size = "large")
         IN Bool(~(cond1 \/ cond2 \/ cond3 \/ cond4 \/ cond5 \/ cond6))

(***************************************************************************)
(* The object resolver and the goal compiler (interpretCommand).           *)
(* A function that returns a list or throws yields [threw, ids].           *)
(***************************************************************************)

\* The keys of state.objects in the order `for (key in state.objects)` visits.
KeyOrder == <<"a", "b", "c">>
Keys(objs) == SelectSeq(KeyOrder, LAMBDA k : k \in DOMAIN objs)

\* Array.prototype.indexOf, counting from 0; -1 when absent.
indexOf(seq, x) ==
    IF \E i \in 1..Len(seq) : seq[i] = x
    THEN (CHOOSE i \in 1..Len(seq) : seq[i] = x /\ \A j \in 1..(i - 1) : seq[j] # x) - 1
    ELSE -1

\* isInStack: is the object in some stack of the world?
isInStack(stks, object) == \E i \in 1..Len(stks) : indexOf(stks[i], object) > -1

\* getStack: <<i>> for the index (from 0) of the first stack holding the
\* object, <<>> for null.
getStack(stks, object) ==
    IF \E i \in 1..Len(stks) : indexOf(stks[i], object) > -1
    THEN <<(CHOOSE i \in 1..Len(stks) :
               /\ indexOf(stks[i], object) > -1
               /\ \A j \in 1..(i - 1) : indexOf(stks[j], object) = -1) - 1>>
    ELSE <<>>

\* JavaScript arithmetic and == on a stack index that may be null.
ToNumber(ix) == IF ix = <<>> THEN 0 ELSE ix[1]
\* number == (number or null)
NumberEquals(n, ix) == ix # <<>> /\ n = ix[1]

\* findObjectIds: the keys matching the description, in key order.
findObjectIds(objs, object) ==
    IF object.form = "floor" THEN <<Floor>>
    ELSE SelectSeq(Keys(objs), LAMBDA key :
            LET colorCheck == IF object.color = Null THEN TRUE
                              ELSE object.color = objs[key].color
                formCheck == IF object.form = Null \/ object.form = "anyform" THEN TRUE
                             ELSE object.form = objs[key].form
                sizeCheck == IF object.size = Null THEN TRUE
                             ELSE object.size = objs[key].size
            IN colorCheck /\ formCheck /\ sizeCheck)

\* A faulty variant of hasRelation: ontop and inside without the test that
\* the child is in the parent's stack or is the floor.
hasRelation_NoChildTest(stks, relation, parent, child) ==
    LET sp == getStack(stks, parent)
        sc == getStack(stks, child)
    IN CASE relation = "beside" ->
              Bool(NumberEquals(ToNumber(sp) - 1, sc) \/ NumberEquals(ToNumber(sc) - 1, sp))
         [] relation = "leftof" -> Bool(NumberEquals(ToNumber(sc) - 1, sp))
         [] relation = "rightof" -> Bool(NumberEquals(ToNumber(sc) + 1, sp))
         [] relation = "above" ->
              IF sp = <<>> THEN TypeError
              ELSE Bool(indexOf(stks[sp[1] + 1], parent) > indexOf(stks[sp[1] + 1], child))
         [] relation = "below" ->
              IF sp = <<>> THEN TypeError
              ELSE Bool(indexOf(stks[sp[1] + 1], parent) < indexOf(stks[sp[1] + 1], child))
         [] relation \in {"ontop", "inside"} ->
              IF sp = <<>> THEN TypeError
              ELSE Bool(indexOf(stks[sp[1] + 1], parent) = indexOf(stks[sp[1] + 1], child) + 1)
         [] OTHER -> "false"

\* hasRelation: does the relation hold between parent and child in the world?
hasRelation(stks, relation, parent, child) ==
    LET sp == getStack(stks, parent)
        sc == getStack(stks, child)
    IN CASE relation = "beside" ->
              Bool(NumberEquals(ToNumber(sp) - 1, sc) \/ NumberEquals(ToNumber(sc) - 1, sp))
         [] relation = "leftof" -> Bool(NumberEquals(ToNumber(sc) - 1, sp))
         [] relation = "rightof" -> Bool(NumberEquals(ToNumber(sc) + 1, sp))
         [] relation = "above" ->
              IF sp = <<>> THEN TypeError       \* state.stacks[null].indexOf
              ELSE Bool(indexOf(stks[sp[1] + 1], parent) > indexOf(stks[sp[1] + 1], child))
         [] relation = "below" ->
              IF sp = <<>> THEN TypeError
              ELSE Bool(indexOf(stks[sp[1] + 1], parent) < indexOf(stks[sp[1] + 1], child))
         [] relation \in {"ontop", "inside"} ->
              IF sp = <<>> THEN TypeError
              ELSE Bool(/\ indexOf(stks[sp[1] + 1], parent) = indexOf(stks[sp[1] + 1], child) + 1
                        /\ (indexOf(stks[sp[1] + 1], child) # -1 \/ child = Floor))
         [] OTHER -> "false"

Returned(ids) == [threw |-> FALSE, ids |-> ids]
Threw == [threw |-> TRUE, ids |-> <<>>]

\* The inner loop of pruneObjectsByLocation for one child: the parents that
\* stand in the relation to it, or a throw.
RECURSIVE PruneParents(_, _, _, _, _)
PruneParents(stks, relation, parents, c, acc) ==
    IF acc.threw \/ parents = <<>> THEN acc
    ELSE LET r == hasRelation(stks, relation, Head(parents), c)
         IN IF r = TypeError THEN Threw
            ELSE PruneParents(stks, relation, Tail(parents), c,
                              IF r = "true" THEN Returned(Append(acc.ids, Head(parents)))
                              ELSE acc)

\* The outer loop of pruneObjectsByLocation over the children.
RECURSIVE PruneChildren(_, _, _, _, _)
PruneChildren(stks, relation, parents, children, acc) ==
    IF acc.threw \/ children = <<>> THEN acc
    ELSE PruneChildren(stks, relation, parents, Tail(children),
                       PruneParents(stks, relation, parents, Head(children), acc))

\* getValidObjects, with pruneObjectsByLocation inlined in its first branch:
\* the two call each other.
RECURSIVE getValidObjects(_, _, _)
getValidObjects(objs, stks, entity) ==
    IF "location" \in DOMAIN entity.object
    THEN LET objIds == findObjectIds(objs, entity.object.object)
             children == getValidObjects(objs, stks, entity.object.location.entity)
         IN IF children.threw THEN Threw
            ELSE PruneChildren(stks, entity.object.location.relation, objIds,
                               children.ids, Returned(<<>>))
    ELSE Returned(SelectSeq(findObjectIds(objs, entity.object),
                            LAMBDA o : isInStack(stks, o) \/ o = Floor))

Literal(relation, args) == [polarity |-> TRUE, relation |-> relation, args |-> args]

\* The results of interpretCommand: a formula (a list of conjunctions), the
\* Error thrown for an empty formula, or a TypeError thrown on the way.
Formula(f) == [kind |-> "formula", formula |-> f]
ErrorThrown == [kind |-> "Error", formula |-> <<>>]
TypeErrorThrown == [kind |-> "TypeError", formula |-> <<>>]
NotRun == [kind |-> "none", formula |-> <<>>]

\* The move branch's double loop: ids_b inside ids_a.
RECURSIVE MoveInner(_, _, _, _, _)
MoveInner(objs, relation, id_a, ids_b, acc) ==
    IF acc.kind # "formula" \/ ids_b = <<>> THEN acc
    ELSE LET lit == Literal(relation, <<id_a, Head(ids_b)>>)
             ok == obeyesPhysicalLaws(objs, lit)
         IN IF ok = TypeError THEN TypeErrorThrown
            ELSE MoveInner(objs, relation, id_a, Tail(ids_b),
                           IF ok = "true" THEN Formula(Append(acc.formula, <<lit>>)) ELSE acc)

RECURSIVE MoveOuter(_, _, _, _, _)
MoveOuter(objs, relation, ids_a, ids_b, acc) ==
    IF acc.kind # "formula" \/ ids_a = <<>> THEN acc
    ELSE MoveOuter(objs, relation, Tail(ids_a), ids_b,
                   MoveInner(objs, relation, Head(ids_a), ids_b, acc))

\* The take branch: one holding literal per candidate other than the floor.
TakeLiterals(ids_a) ==
    LET kept == SelectSeq(ids_a, LAMBDA id_a : id_a # Floor)
    IN [i \in 1..Len(kept) |-> <<Literal("holding", <<kept[i]>>)>>]

interpretCommand(objs, stks, command) ==
    LET ids_a == getValidObjects(objs, stks, command.entity)
    IN IF ids_a.threw THEN TypeErrorThrown
       ELSE LET built ==
                  CASE command.command = "take" -> Formula(TakeLiterals(ids_a.ids))
                    [] command.command = "move" ->
                         LET ids_b == getValidObjects(objs, stks, command.location.entity)
                         IN IF ids_b.threw THEN TypeErrorThrown
                            ELSE MoveOuter(objs, command.location.relation,
                                           ids_a.ids, ids_b.ids, Formula(<<>>))
                    [] OTHER -> Formula(<<>>)
            IN IF built.kind = "formula" /\ Len(built.formula) = 0
               THEN ErrorThrown
               ELSE built

\* findObjectId of Interpreter.ts: the keys matching the description, in key
\* order. A description with a location has no color, form or size of its
\* own, so every key matches it; the floor has no key.
findObjectId(objs, object) ==
    IF "location" \in DOMAIN object THEN Keys(objs)
    ELSE SelectSeq(Keys(objs), LAMBDA key :
            LET colorCheck == IF object.color = Null THEN TRUE
                              ELSE object.color = objs[key].color
                formCheck == IF object.form = Null \/ object.form = "anyform" THEN TRUE
                             ELSE object.form = objs[key].form
                sizeCheck == IF object.size = Null THEN TRUE
                             ELSE object.size = objs[key].size
            IN colorCheck /\ formCheck /\ sizeCheck)

\* The interpretCommand kept in Interpreter.ts: one literal per matching
\* object that is in a stack, holding(id) for take and relation(id) for
\* any other command; the list is returned as it is, empty or not.
interpretCommandInterpreterTs(objs, stks, command) ==
    LET ids == SelectSeq(findObjectId(objs, command.entity.object),
                         LAMBDA id : isInStack(stks, id))
    IN IF command.command = "take"
       THEN Formula([i \in 1..Len(ids) |-> <<Literal("holding", <<ids[i]>>)>>])
       ELSE Formula([i \in 1..Len(ids) |->
                        <<Literal(command.location.relation, <<ids[i]>>)>>])

(***************************************************************************)
(* The state graph: StateNode and StateGraph.                              *)
(* A node is [data, holding]: data the columns (bottom first), holding the *)
(* held object or Null. A clone has no holding.                            *)
(***************************************************************************)

Node(data, held) == [data |-> data, holding |-> held]

\* StateNode.clone: the columns are copied, holding is not.
clone(node) == Node(node.data, Null)

\* StateNode.toString: every identifier of every column, a comma after each
\* column; holding is not part of it.
RECURSIVE toStringFrom(_, _)
toStringFrom(data, i) ==
    IF i > Len(data) THEN <<>>
    ELSE data[i] \o <<",">> \o toStringFrom(data, i + 1)
toString(node) == toStringFrom(node.data, 1)

\* StateNode.compareTo / StateGraph.compareNodes: 0 when every column of
\* `this` equals the other's, else -1; holding is not compared.
compareTo(this, other) ==
    IF \A i \in 1..Len(this.data) : this.data[i] = other.data[i] THEN 0 ELSE -1
compareNodes(a, b) == compareTo(a, b)

\* Mutant of MoveTop: the top of column i is pushed on column j but not popped.
MoveTop_NoPop(data, i, j) ==
    [data EXCEPT ![j] = Append(data[j], data[i][Len(data[i])])]

\* next.data[j].push(next.data[i].pop()) on a clone's columns (i, j from 1).
MoveTop(data, i, j) ==
    [data EXCEPT ![i] = SubSeq(data[i], 1, Len(data[i]) - 1),
                 ![j] = Append(data[j], data[i][Len(data[i])])]

Edges(es) == [threw |-> FALSE, edges |-> es]
EdgesThrew == [threw |-> TRUE, edges |-> <<>>]

\* The double loop of outgoingEdges for a node that holds nothing; k counts
\* the pairs (i, j) in loop order, i = k \div n, j = k % n (from 0).
RECURSIVE MoveEdges(_, _, _, _)
MoveEdges(objs, node, k, acc) ==
    LET n == Len(node.data)
        i == (k \div n) + 1
        j == (k % n) + 1
    IN IF acc.threw \/ k >= n * n THEN acc
       ELSE IF i = j \/ Len(node.data[i]) = 0 THEN MoveEdges(objs, node, k + 1, acc)
       ELSE LET next == Node(MoveTop(clone(node).data, i, j), clone(node).holding)
                ok == isValidStack(objs, next.data[j])
            IN IF ok = TypeError THEN EdgesThrew
               ELSE MoveEdges(objs, node, k + 1,
                              IF ok = "true"
                              THEN Edges(Append(acc.edges, [from |-> node, to |-> next, cost |-> 1]))
                              ELSE acc)

\* StateGraph.outgoingEdges. In the holding branch the validity check reads
\* next.data[j] with j still undefined, so isValidStack reads the length of
\* undefined and throws as soon as there is a column to try.
outgoingEdges(objs, node) ==
    IF node.holding # Null
    THEN IF Len(node.data) > 0 THEN EdgesThrew ELSE Edges(<<>>)
    ELSE MoveEdges(objs, node, 0, Edges(<<>>))

(***************************************************************************)
(* The goal predicates aStarSearch is run with. Its `goal` parameter is    *)
(* any function from nodes to booleans; the ones tried here are given by a *)
(* formula in disjunctive normal form (a list of conjunctions, each a list *)
(* of literals), true of a node when the formula holds of its columns.     *)
(***************************************************************************)

\* A literal's truth in a node: holding(x) iff x is held; the other
\* relations as hasRelation finds them on the node's columns; a negative
\* polarity negates.
LiteralTrue(lit, nd) ==
    LET v == IF lit.relation = "holding"
             THEN nd.holding = lit.args[1]
             ELSE hasRelation(nd.data, lit.relation, lit.args[1], lit.args[2]) = "true"
    IN IF lit.polarity THEN v ELSE ~v

\* A node satisfies a formula iff every literal of some conjunction is true.
satisfies(formula, nd) ==
    \E c \in 1..Len(formula) : \A l \in 1..Len(formula[c]) : LiteralTrue(formula[c][l], nd)

(***************************************************************************)
(* aStarSearch and the collections it keeps. A Dictionary or Set keys a    *)
(* node by its toString; the PriorityQueue is a binary heap in an array,   *)
(* ordered by the reverse of the comparator it was given, which is         *)
(*   (a, b) => cost.getValue(a) - cost.getValue(b);                        *)
(* a comparison with a node that has no cost yet is NaN, neither > 0 nor   *)
(* <= 0 nor === 0.                                                         *)
(***************************************************************************)

HasValue(dict, nd) == toString(nd) \in DOMAIN dict
getValue(dict, nd) == dict[toString(nd)]
setValue(dict, nd, v) == (toString(nd) :> v) @@ dict
EmptyDictionary == <<>>

\* The heap's compare(d, v) = -(cost(d) - cost(v)), tested as the heap tests it.
HeapCompare(g, d, v) == getValue(g, v) - getValue(g, d)
Comparable(g, d, v) == HasValue(g, d) /\ HasValue(g, v)
CompareGreater(g, d, v) == Comparable(g, d, v) /\ HeapCompare(g, d, v) > 0
CompareNotGreater(g, d, v) == Comparable(g, d, v) /\ HeapCompare(g, d, v) <= 0
CompareEqual(g, d, v) == Comparable(g, d, v) /\ HeapCompare(g, d, v) = 0

Swap(data, p, q) == [data EXCEPT ![p] = data[q], ![q] = data[p]]

\* Heap.siftUp from position p (positions from 1: the parent of p is p \div 2).
RECURSIVE siftUp(_, _, _)
siftUp(data, g, p) ==
    IF p > 1 /\ CompareGreater(g, data[p \div 2], data[p])
    THEN siftUp(Swap(data, p \div 2, p), g, p \div 2)
    ELSE data

\* Heap.minIndex of the children 2p and 2p + 1 of p; 0 when p has no child.
minIndex(data, g, p) ==
    IF 2 * p + 1 > Len(data)
    THEN IF 2 * p > Len(data) THEN 0 ELSE 2 * p
    ELSE IF CompareNotGreater(g, data[2 * p], data[2 * p + 1]) THEN 2 * p ELSE 2 * p + 1

\* Heap.siftDown from position p.
RECURSIVE siftDown(_, _, _)
siftDown(data, g, p) ==
    LET min == minIndex(data, g, p)
    IN IF min > 0 /\ CompareGreater(g, data[p], data[min])
       THEN siftDown(Swap(data, min, p), g, min)
       ELSE data

\* PriorityQueue.enqueue / add: push, then siftUp.
add(data, g, element) == siftUp(Append(data, element), g, Len(data) + 1)

\* The heap array after PriorityQueue.dequeue returned data[1]: the last
\* element takes the root's place, then siftDown.
removeRoot(data, g) ==
    IF Len(data) <= 1 THEN <<>>
    ELSE siftDown([SubSeq(data, 1, Len(data) - 1) EXCEPT ![1] = data[Len(data)]], g, 1)

\* PriorityQueue.contains: some element compares === 0 with the given one.
contains(data, g, element) ==
    \E p \in 1..Len(data) : CompareEqual(g, data[p], element)

\* heuristics(n), for the heuristic functions handed to aStarSearch here:
\* "zero" is (n) => 0, the one the planner hands over; "one" is (n) => 1,
\* which is nonzero at every node, the goal nodes included.
Heuristic(h, nd) == IF h = "zero" THEN 0 ELSE 1

\* getNeighbours: the targets of the node's outgoing edges.
getNeighbours(objs, home) ==
    LET es == outgoingEdges(objs, home)
    IN [threw |-> es.threw, nodes |-> [k \in 1..Len(es.edges) |-> es.edges[k].to]]

\* distance: the cost of the first edge of `nd` whose target compares equal
\* to `next`.
distance(objs, nd, next) ==
    LET es == outgoingEdges(objs, nd).edges
        k == CHOOSE k \in 1..Len(es) :
                /\ compareNodes(next, es[k].to) = 0
                /\ \A m \in 1..(k - 1) : compareNodes(next, es[m].to) # 0
    IN es[k].cost

\* constructPath: the end node first, then its predecessors back to a node
\* without one.
RECURSIVE constructPath(_, _)
constructPath(from, endNode) ==
    IF HasValue(from, endNode)
    THEN <<endNode>> \o constructPath(from, getValue(from, endNode))
    ELSE <<endNode>>

\* The body of the loop over the neighbours of currentNode, on the
\* collections st = [cost, fScore, pendingNodes, cameFrom].
RECURSIVE Relax(_, _, _, _, _, _)
Relax(objs, h, visited, currentNode, neighbours, st) ==
    IF neighbours = <<>> THEN st
    ELSE LET neighbour == Head(neighbours)
             rest == Tail(neighbours)
             tentativeCost == getValue(st.cost, currentNode)
                              + distance(objs, currentNode, neighbour)
             queued == contains(st.pendingNodes, st.cost, neighbour)
         IN IF toString(neighbour) \in visited
            THEN Relax(objs, h, visited, currentNode, rest, st)
            ELSE IF queued /\ tentativeCost >= getValue(st.cost, neighbour)
            THEN Relax(objs, h, visited, currentNode, rest, st)
            ELSE Relax(objs, h, visited, currentNode, rest,
                       [cost |-> setValue(st.cost, neighbour, tentativeCost),
                        fScore |-> setValue(st.fScore, neighbour,
                                            tentativeCost + Heuristic(h, neighbour)),
                        pendingNodes |-> IF queued THEN st.pendingNodes
                                         ELSE add(st.pendingNodes, st.cost, neighbour),
                        cameFrom |-> setValue(st.cameFrom, neighbour, currentNode)])

\* What aStarSearch hands back: a SearchResult, undefined, or a thrown TypeError.
SearchResult(path, c) == [kind |-> "result", path |-> path, cost |-> c]
ReturnedUndefined == [kind |-> Undefined, path |-> <<>>, cost |-> 0]
\* What is returned once the loop is left: by its condition (the queue is
\* empty) or by the break on the timeout, the same `return undefined`.
ExhaustedOutcome == ReturnedUndefined
TimeoutOutcome == ReturnedUndefined
SearchThrew == [kind |-> TypeError, path |-> <<>>, cost |-> 0]
Running == [kind |-> "running", path |-> <<>>, cost |-> 0]

(***************************************************************************)
(* interpret: interpretCommand applied to every candidate parse in turn.   *)
(* An error is recorded with the position (from 1) of the candidate that   *)
(* raised it; a result keeps the position of the parse it extends.         *)
(***************************************************************************)

NoError == [kind |-> "none", of |-> 0]
ErrorOf(k, kind) == [kind |-> kind, of |-> k]
NotInterpreted == [kind |-> "none", interpretations |-> <<>>, error |-> NoError]

\* Faulty variant of InterpretEach: a candidate that fails ends the loop.
RECURSIVE InterpretEach_StopAtError(_, _, _, _, _)
InterpretEach_StopAtError(objs, stks, ps, k, acc) ==
    IF k > Len(ps) \/ Len(acc.errors) > 0 THEN acc
    ELSE LET r == interpretCommand(objs, stks, ps[k])
         IN InterpretEach_StopAtError(objs, stks, ps, k + 1,
               IF r.kind = "formula"
               THEN [acc EXCEPT !.interpretations =
                        Append(@, [parse |-> ps[k], input |-> k, interpretation |-> r.formula])]
               ELSE [acc EXCEPT !.errors = Append(@, ErrorOf(k, r.kind))])

\* parses.forEach: a candidate that interprets is pushed on interpretations,
\* the error of one that throws on errors.
RECURSIVE InterpretEach(_, _, _, _, _)
InterpretEach(objs, stks, ps, k, acc) ==
    IF k > Len(ps) THEN acc
    ELSE LET r == interpretCommand(objs, stks, ps[k])
         IN InterpretEach(objs, stks, ps, k + 1,
               IF r.kind = "formula"
               THEN [acc EXCEPT !.interpretations =
                        Append(@, [parse |-> ps[k], input |-> k, interpretation |-> r.formula])]
               ELSE [acc EXCEPT !.errors = Append(@, ErrorOf(k, r.kind))])

\* interpret: the interpretations when there is one, else the first error
\* is thrown.
interpret(objs, stks, ps) ==
    LET r == InterpretEach(objs, stks, ps, 1, [interpretations |-> <<>>, errors |-> <<>>])
    IN IF Len(r.interpretations) > 0
       THEN [kind |-> "returned", interpretations |-> r.interpretations, error |-> NoError]
       ELSE [kind |-> "threw", interpretations |-> <<>>, error |-> r.errors[1]]

(***************************************************************************)
(* The planner: planInterpretation with its planBetweenStates, and         *)
(* Planner.plan. A plan is a sequence of strings; what planInterpretation  *)
(* hands back is [kind, plan], kind "plan" or the TypeError it threw.      *)
(***************************************************************************)

Plan(pl) == [kind |-> "plan", plan |-> pl]
PlanTypeError == [kind |-> TypeError, plan |-> <<>>]
NotSynthesized == [kind |-> "none", plan |-> <<>>]

Abs(n) == IF n < 0 THEN -n ELSE n
Repeat(x, n) == [i \in 1..n |-> x]

\* The value picStack (more = TRUE) or putStack (more = FALSE) ends the
\* first loop of planBetweenStates with: the last column (from 0) that is
\* longer, or shorter, in `from` than in `to`; 0 when there is none.
LastColumn(from, to, more) ==
    LET S == {i \in 1..Len(from) :
                 IF more THEN Len(from[i]) > Len(to[i]) ELSE Len(from[i]) < Len(to[i])}
    IN IF S = {} THEN 0 ELSE (CHOOSE i \in S : \A j \in S : j <= i) - 1

\* planBetweenStates(s1, s2), pushing on the plan pl built so far. The arm
\* is taken to be over state.arm at every call. The object picked is popped
\* from from[i] with i left over by the loop that steps the arm, that is
\* i = |armPosition - picStack|; an empty column there gives undefined, and
\* state.objects[undefined].form throws. The third narration is
\* ("Moving arm " + moveDir == "r") ? "right" : "left", always "left".
planBetweenStates(objs, armCol, pl, s1, s2) ==
    LET from == s1.data
        to == s2.data
        picStack == LastColumn(from, to, TRUE)
        putStack == LastColumn(from, to, FALSE)
        armPosition == armCol
        toPick == Abs(armPosition - picStack)
        column == from[toPick + 1]
    IN IF Len(column) = 0 THEN PlanTypeError
       ELSE LET obj == column[Len(column)]
            IN Plan(pl
                    \o Repeat(IF armPosition < picStack THEN "r" ELSE "l", toPick)
                    \o <<"Picking up the " \o objs[obj].form, "p">>
                    \o <<"left">>
                    \o Repeat(IF picStack < putStack THEN "r" ELSE "l",
                              Abs(picStack - putStack))
                    \o <<"Dropping the " \o objs[obj].form, "d">>)

\* The loop of planInterpretation over the edges of the path, from edge i:
\*   plan = plan.concat(planBetweenStates(path[i], path[i+1]))
\* planBetweenStates pushes on the very array `plan` names and returns it,
\* so the concatenation is that array twice.
RECURSIVE PlanEdges(_, _, _, _, _)
PlanEdges(objs, armCol, nodes, i, acc) ==
    IF acc.kind # "plan" \/ i > Len(nodes) - 1 THEN acc
    ELSE LET r == planBetweenStates(objs, armCol, acc.plan, nodes[i], nodes[i + 1])
         IN PlanEdges(objs, armCol, nodes, i + 1,
                      IF r.kind = "plan" THEN Plan(r.plan \o r.plan) ELSE r)

\* The nodes of the path as the loop of planInterpretation leaves them, from
\* edge i on: planBetweenStates pops the object it picks off the column
\* from[i] of s1 itself, not off a copy. Popping an empty column changes
\* nothing, and the TypeError that follows ends the loop.
RECURSIVE PoppedPath(_, _, _)
PoppedPath(armCol, nodes, i) ==
    IF i > Len(nodes) - 1 THEN nodes
    ELSE LET from == nodes[i].data
             picStack == LastColumn(from, nodes[i + 1].data, TRUE)
             toPick == Abs(armCol - picStack)
         IN IF Len(from[toPick + 1]) = 0 THEN nodes
            ELSE PoppedPath(armCol,
                            [nodes EXCEPT ![i].data[toPick + 1] =
                                SubSeq(from[toPick + 1], 1, Len(from[toPick + 1]) - 1)],
                            i + 1)

\* The world state handed to the planner.
WorldState(objs, stks, held, armCol) ==
    [stacks |-> stks, holding |-> held, arm |-> armCol, objects |-> objs]

\* What `new StateNode(state)` stores as the start node's data: the world
\* state itself, which is no array of columns.
StartNodeData(state) == [array |-> FALSE, value |-> state]

\* `new StateNode(state)`, the start node planInterpretation hands to the
\* search: the constructor stores its argument as data and sets nothing
\* else, and addHolding is not called, so holding stays undefined.
StartNode(state) == [data |-> StartNodeData(state), holding |-> Undefined]

\* The goal function planInterpretation hands to the search: (n) => true.
isGoal(formula, nd) == TRUE

\* planInterpretation. The search first keys the start node by its
\* toString, which calls this.data.forEach: a TypeError when data is no
\* array. Otherwise the goal function accepts the first node dequeued, the
\* start node, and the path is that node alone.
planInterpretation(objs, state, formula) ==
    LET data == StartNodeData(state)
    IN IF ~data.array THEN PlanTypeError
       ELSE LET startNode == Node(data.value, Null)
            IN IF isGoal(formula, startNode)
               THEN PlanEdges(objs, state.arm, <<startNode>>, 1, Plan(<<>>))
               ELSE PlanTypeError

\* What Planner.plan makes of a plan before it returns it: an empty plan
\* gets the utterance "That is already true!".
FinishedPlan(pl) == IF Len(pl) = 0 THEN <<"That is already true!">> ELSE pl

NotPlanned == [kind |-> "none", plans |-> <<>>, error |-> NoError]

\* interpretations.forEach of Planner.plan.
RECURSIVE PlanEach(_, _, _, _, _)
PlanEach(objs, state, results, k, acc) ==
    IF k > Len(results) THEN acc
    ELSE LET r == planInterpretation(objs, state, results[k].interpretation)
         IN PlanEach(objs, state, results, k + 1,
               IF r.kind = "plan"
               THEN [acc EXCEPT !.plans =
                        Append(@, [input |-> k, plan |-> FinishedPlan(r.plan)])]
               ELSE [acc EXCEPT !.errors = Append(@, ErrorOf(k, r.kind))])

\* Planner.plan: the plans when there is one, else the first error is thrown.
plan(objs, state, results) ==
    LET r == PlanEach(objs, state, results, 1, [plans |-> <<>>, errors |-> <<>>])
    IN IF Len(r.plans) > 0
       THEN [kind |-> "returned", plans |-> r.plans, error |-> NoError]
       ELSE [kind |-> "threw", plans |-> <<>>, error |-> r.errors[1]]

(***************************************************************************)
(* SpecLaws: the physical-law checks applied to every literal over two     *)
(* objects of every form and size, and the floor.                          *)
(***************************************************************************)

None == "none"
LawIds == {"a", "b"}
LawDefinitions == [form : Forms, size : Sizes, color : {"red"}]
LawLiterals ==
    [polarity : {TRUE}, relation : Relations,
     args : {<<x, y>> : x \in LawIds \cup {Floor}, y \in LawIds \cup {Floor}}]

\* The stack that realises `literal`: args[1] placed directly on args[2].
StackOf(lit) ==
    IF lit.args[2] = Floor THEN <<lit.args[1]>> ELSE <<lit.args[2], lit.args[1]>>

LawsIdle ==
    /\ literal = None
    /\ lawsResult = None
    /\ lawsResultGraph = None
    /\ stackResult = None

InterpIdle ==
    /\ stacks = <<>>
    /\ holding = Null
    /\ cmd = None
    /\ interpretation = NotRun
    /\ interpretationTs = NotRun

PlannerIdle ==
    /\ parses = <<>>
    /\ interpreted = NotInterpreted
    /\ arm = 0
    /\ planned = NotPlanned
    /\ planPath = <<>>
    /\ synthesized = NotSynthesized
    /\ finished = NotSynthesized
    /\ pathAfter = <<>>

\* No node has been looked up in the collections of the search yet.
NotCompared ==
    [compareNodes |-> FALSE, cost |-> FALSE, visitedNodes |-> FALSE,
     pendingNodes |-> FALSE, asked |-> FALSE]

EvalIdle ==
    /\ nodeA = None
    /\ nodeB = None
    /\ sameEntry = NotCompared
    /\ relationResult = None
    /\ runA = None
    /\ runB = None

WalkIdle ==
    /\ walkNode = None
    /\ walkError = None
    /\ walkSteps = 0

SearchIdle ==
    /\ start = None
    /\ goal = None
    /\ heuristics = None
    /\ timeout = 0
    /\ elapsed = 0
    /\ cost = None
    /\ fScore = None
    /\ visitedNodes = {}
    /\ pendingNodes = <<>>
    /\ cameFrom = None
    /\ result = None
    /\ pc = None

InitLaws ==
    /\ objects \in [LawIds -> LawDefinitions]
    /\ literal \in LawLiterals
    /\ lawsResult = None
    /\ lawsResultGraph = None
    /\ stackResult = None
    /\ InterpIdle
    /\ WalkIdle
    /\ SearchIdle
    /\ PlannerIdle
    /\ EvalIdle

ObeyesPhysicalLaws ==
    /\ lawsResult = None
    /\ lawsResult' = obeyesPhysicalLaws(objects, literal)
    /\ UNCHANGED <<objects, literal, lawsResultGraph, stackResult, interpVars, walkVars, searchVars, plannerVars, evalVars>>

ObeyesPhysicalLawsGraphTs ==
    /\ lawsResultGraph = None
    /\ lawsResultGraph' = obeyesPhysicalLawsGraphTs(objects, literal)
    /\ UNCHANGED <<objects, literal, lawsResult, stackResult, interpVars, walkVars, searchVars, plannerVars, evalVars>>

\* Only real, distinct objects are ever stacked.
IsValidStack ==
    /\ stackResult = None
    /\ literal.args[1] # Floor
    /\ literal.args[1] # literal.args[2]
    /\ stackResult' = isValidStack(objects, StackOf(literal))
    /\ UNCHANGED <<objects, literal, lawsResult, lawsResultGraph, interpVars, walkVars, searchVars, plannerVars, evalVars>>

NextLaws == ObeyesPhysicalLaws \/ ObeyesPhysicalLawsGraphTs \/ IsValidStack

SpecLaws == InitLaws /\ [][NextLaws]_vars

\* ---- Claims settled under SpecLaws ----

RealPair == literal.args[1] \in LawIds /\ literal.args[2] \in LawIds
SupportRelation == literal.relation \in {"ontop", "inside"}

\* C6: the physical-law check rejects every placement of a real object on
\* itself (relations ontop and inside), and accepts placing any object
\* directly on the floor; this holds of obeyesPhysicalLaws, of its copy in
\* Graph.ts, and (for the floor) of isValidStack on a stack of one element.
C6_NoSelfSupportFloorAccepted ==
    /\ (lawsResult # None /\ RealPair /\ SupportRelation
        /\ literal.args[1] = literal.args[2]) => lawsResult = "false"
    /\ (lawsResultGraph # None /\ RealPair /\ SupportRelation
        /\ literal.args[1] = literal.args[2]) => lawsResultGraph = "false"
    /\ (lawsResult # None /\ literal.args[2] = Floor
        /\ literal.relation = "ontop") => lawsResult = "true"
    /\ (lawsResultGraph # None /\ literal.args[2] = Floor
        /\ literal.relation = "ontop") => lawsResultGraph = "true"
    /\ (stackResult # None /\ literal.args[2] = Floor) => stackResult = "true"

\* C6 witness: both copies of the check have rejected inside(x, x) for a brick x.
C6_Witness ==
    /\ lawsResult = "false"
    /\ lawsResultGraph = "false"
    /\ RealPair
    /\ literal.args[1] = literal.args[2]
    /\ literal.relation = "inside"
    /\ objects[literal.args[1]].form = "brick"

\* C8: grounding and planning apply the same predicate: for distinct real
\* x, y the goal compiler accepts ontop(x, y) or inside(x, y) if and only if
\* isValidStack accepts a stack whose top two elements are y then x.
C8_SamePredicate ==
    (/\ lawsResult # None
     /\ stackResult # None
     /\ RealPair
     /\ SupportRelation
     /\ literal.args[1] # literal.args[2])
    => (lawsResult = "true" <=> stackResult = "true")

\* C9: the physical-law check is total: for every pair of arguments drawn
\* from the real objects and the floor, and every relation, it returns true
\* or false and never throws.
C9_Total == lawsResult \in {None, "true", "false"}

(***************************************************************************)
(* SpecInterp: interpretCommand applied to every command of a bounded      *)
(* grammar in every world of NumStacks columns over three objects.         *)
(***************************************************************************)

NumStacks == 3
Ids == {"a", "b", "c"}

\* The duplicate-free sequences over a set.
SeqsOver(S) ==
    UNION {{q \in [1..k -> S] : \A i, j \in 1..k : i # j => q[i] # q[j]} :
           k \in 0..Cardinality(S)}
Elems(q) == {q[i] : i \in 1..Len(q)}
Placed(stks) == UNION {Elems(stks[i]) : i \in 1..Len(stks)}

\* Every arrangement of some of the objects in n columns, no object twice.
Columns(ids, n) ==
    {st \in [1..n -> SeqsOver(ids)] :
        \A i, j \in 1..n : i # j => Elems(st[i]) \cap Elems(st[j]) = {}}

InterpTables ==
    { [a |-> [form |-> "ball", size |-> "large", color |-> "red"],
       b |-> [form |-> "box", size |-> "small", color |-> "blue"],
       c |-> [form |-> "table", size |-> "large", color |-> "red"]],
      [a |-> [form |-> "ball", size |-> "small", color |-> "red"],
       b |-> [form |-> "box", size |-> "large", color |-> "red"],
       c |-> [form |-> "brick", size |-> "small", color |-> "blue"]] }

\* The bounded grammar of object descriptions and commands.
SimpleObjects ==
    [form : {"anyform", "floor", "box"}, size : {Null, "large"}, color : {Null}]
AnyObject == [form |-> "anyform", size |-> Null, color |-> Null]
FloorObject == [form |-> "floor", size |-> Null, color |-> Null]
BoxObject == [form |-> "box", size |-> Null, color |-> Null]
Entity(o) == [object |-> o]
Location(r, e) == [relation |-> r, entity |-> e]
ComplexObjects ==
    {[object |-> AnyObject, location |-> Location(r, Entity(o))] :
        r \in Relations, o \in {AnyObject, FloorObject}}
TakeCommands ==
    {[command |-> "take", entity |-> Entity(o)] : o \in SimpleObjects \cup ComplexObjects}
MovedObjects ==
    {AnyObject, FloorObject, BoxObject,
     [object |-> AnyObject, location |-> Location("ontop", Entity(FloorObject))],
     [object |-> AnyObject, location |-> Location("beside", Entity(AnyObject))]}
MoveCommands ==
    {[command |-> "move", entity |-> Entity(o), location |-> Location(r, Entity(t))] :
        o \in MovedObjects, r \in Relations, t \in {AnyObject, FloorObject, BoxObject}}
Commands == TakeCommands \cup MoveCommands

InitInterp ==
    /\ objects \in InterpTables
    /\ stacks \in Columns(Ids, NumStacks)
    /\ holding \in {Null} \cup (Ids \ Placed(stacks))
    /\ cmd \in Commands
    /\ interpretation = NotRun
    /\ interpretationTs = NotRun
    /\ LawsIdle
    /\ WalkIdle
    /\ SearchIdle
    /\ PlannerIdle
    /\ EvalIdle

InterpretCommand ==
    /\ interpretation = NotRun
    /\ interpretation' = interpretCommand(objects, stacks, cmd)
    /\ UNCHANGED <<objects, stacks, holding, cmd, interpretationTs, lawVars, walkVars, searchVars, plannerVars, evalVars>>

InterpretCommandInterpreterTs ==
    /\ interpretationTs = NotRun
    /\ interpretationTs' = interpretCommandInterpreterTs(objects, stacks, cmd)
    /\ UNCHANGED <<objects, stacks, holding, cmd, interpretation, lawVars, walkVars,
                   searchVars, plannerVars, evalVars>>

NextInterp == InterpretCommand \/ InterpretCommandInterpreterTs

SpecInterp == InitInterp /\ [][NextInterp]_vars

\* ---- Claims settled under SpecInterp ----

IdsA == getValidObjects(objects, stacks, cmd.entity)
IdsB == getValidObjects(objects, stacks, cmd.location.entity)
Kept(x, y) ==
    \E i \in 1..Len(interpretation.formula) :
        interpretation.formula[i] = <<Literal(cmd.location.relation, <<x, y>>)>>
Compiled == interpretation.kind \in {"formula", "Error"}

\* The six rejection rules as the specification words them, for top x on base y.
SixRulesReject(objs, x, y) ==
    LET top == objs[x]
        base == objs[y]
    IN \/ (top.size = "large" /\ base.size = "small")
       \/ base.form = "ball"
       \/ (top.form = "ball" /\ base.form = "table")
       \/ (base.form = "box" /\ base.size = top.size
           /\ top.form \in {"pyramid", "plank", "box"})
       \/ (top.form = "box" /\ top.size = "small"
           /\ (base.form = "pyramid" \/ (base.form = "brick" /\ base.size = "small")))
       \/ (top.form = "box" /\ top.size = "large"
           /\ base.form = "pyramid" /\ base.size = "large")

\* C7: for a move command whose relation is ontop or inside and every pair
\* of distinct real objects (x, y) from the two resolved sets, the literal
\* relation(x, y) is kept in the goal formula if and only if none of the six
\* rejection rules holds for top x and base y, whatever the form of y.
C7_KeptIffNoRule ==
    (/\ Compiled
     /\ cmd.command = "move"
     /\ cmd.location.relation \in {"ontop", "inside"})
    => \A x \in Elems(IdsA.ids) \cap Ids, y \in Elems(IdsB.ids) \cap Ids :
          x # y => (Kept(x, y) <=> ~SixRulesReject(objects, x, y))

NonSupportMove ==
    /\ interpretation # NotRun
    /\ cmd.command = "move"
    /\ cmd.location.relation \in {"leftof", "rightof", "beside", "above", "below"}
    /\ ~IdsA.threw
    /\ ~IdsB.threw

\* C10 as claimed: for a move command whose relation is leftof, rightof,
\* beside, above or below, the goal formula contains relation(x, y) for every
\* pair (x, y) drawn from the two resolved sets; no pair is filtered out.
C10_NoPairFiltered ==
    NonSupportMove
    => \A x \in Elems(IdsA.ids), y \in Elems(IdsB.ids) : Kept(x, y)

\* C10 as amended: for such a command whose moved description resolves to
\* real objects, compilation does not throw a TypeError, and the literal
\* relation(x, y) is kept for every pair with x different from y and dropped
\* for every pair with x = y.
C10_DistinctPairsKept ==
    (NonSupportMove /\ Floor \notin Elems(IdsA.ids))
    => /\ Compiled
       /\ \A x \in Elems(IdsA.ids), y \in Elems(IdsB.ids) : Kept(x, y) <=> x # y

\* C10 witness: a compiled beside-goal that keeps a pair of distinct objects
\* although the rules would reject stacking them, and drops a pair (x, x).
C10_Witness ==
    /\ NonSupportMove
    /\ interpretation.kind = "formula"
    /\ cmd.location.relation = "beside"
    /\ \E x \in Elems(IdsA.ids) \cap Ids, y \in Elems(IdsB.ids) \cap Ids :
          /\ x # y
          /\ Kept(x, y)
          /\ SixRulesReject(objects, x, y)
          /\ x \in Elems(IdsB.ids)
          /\ ~Kept(x, x)

\* How many conjunctions of the returned formula are the single literal
\* holding(id).
HoldingConjunctions(id) ==
    Cardinality({i \in 1..Len(interpretation.formula) :
                    interpretation.formula[i] = <<Literal("holding", <<id>>)>>})

\* C11: for a take command the goal formula consists of exactly one
\* single-literal conjunction holding(id), of positive polarity, for each
\* candidate id of the resolved set other than the floor, and nothing else;
\* the floor is never the argument of a holding literal.
C11_OneHoldingPerCandidate ==
    (interpretation.kind = "formula" /\ cmd.command = "take")
    => /\ \A i \in 1..Len(interpretation.formula) :
             \E id \in Elems(IdsA.ids) \ {Floor} :
                interpretation.formula[i] = <<Literal("holding", <<id>>)>>
       /\ \A id \in Elems(IdsA.ids) \ {Floor} : HoldingConjunctions(id) = 1

\* The object id passes every filter the description o specifies.
MatchesFilters(o, id) ==
    /\ (o.color = Null \/ o.color = objects[id].color)
    /\ (o.size = Null \/ o.size = objects[id].size)
    /\ (o.form = Null \/ o.form = "anyform" \/ o.form = objects[id].form)

BareDescription == "location" \notin DOMAIN cmd.entity.object

\* C27: for a bare description whose form is not floor, the resolver
\* returns exactly the objects that match every specified filter and are
\* in some stack or are the held object, each once.
C27_BareMatchesPlacedOrHeld ==
    (interpretation # NotRun /\ BareDescription /\ cmd.entity.object.form # "floor")
    => /\ ~IdsA.threw
       /\ Len(IdsA.ids) = Cardinality(Elems(IdsA.ids))
       /\ Elems(IdsA.ids) =
             {id \in Ids : /\ MatchesFilters(cmd.entity.object, id)
                           /\ (id \in Placed(stacks) \/ id = holding)}

\* The identifiers the nested entity of a qualified description resolves to.
Nested == getValidObjects(objects, stacks, cmd.entity.object.location.entity)

\* C28: for a description with a location qualifier the resolver's result
\* is a set: it contains each object matching the filters for which the
\* relation holds against at least one identifier of the resolved nested
\* entity, each exactly once, and no other identifier; and the compiled
\* goal formula has no repeated conjunction.
C28_QualifiedResultIsSet ==
    (interpretation # NotRun /\ ~BareDescription /\ ~IdsA.threw)
    => /\ Len(IdsA.ids) = Cardinality(Elems(IdsA.ids))
       /\ Elems(IdsA.ids) =
             {id \in Ids :
                /\ MatchesFilters(cmd.entity.object.object, id)
                /\ \E c \in Elems(Nested.ids) :
                      hasRelation(stacks, cmd.entity.object.location.relation, id, c) = "true"}
       /\ interpretation.kind = "formula"
          => \A i, j \in 1..Len(interpretation.formula) :
                i # j => interpretation.formula[i] # interpretation.formula[j]

\* C29: no literal of a goal formula interpretCommand returns has the floor
\* as its first argument, the object to be moved or held.
C29_FloorNeverFirstArgument ==
    interpretation.kind = "formula"
    => \A i \in 1..Len(interpretation.formula) :
          \A k \in 1..Len(interpretation.formula[i]) :
             interpretation.formula[i][k].args[1] # Floor

\* What interpretCommand may hand back according to C12: a formula of at
\* least one conjunction, or the Error thrown for an empty one.
NonEmptyOrNoInterpretation(r) ==
    \/ r = NotRun
    \/ r = ErrorThrown
    \/ (r.kind = "formula" /\ Len(r.formula) >= 1)

\* C12: the goal compiler never returns an empty formula: for every command
\* and world, interpretCommand either returns a formula with at least one
\* conjunction or fails with NoInterpretation (the Error thrown for an empty
\* formula); this holds of interpretCommand and of its copy in Interpreter.ts.
C12_NeverEmptyFormula ==
    /\ NonEmptyOrNoInterpretation(interpretation)
    /\ NonEmptyOrNoInterpretation(interpretationTs)

(***************************************************************************)
(* SpecPlanner: interpret applied to every list of at most MaxParses       *)
(* candidate parses of a small grammar, and Planner.plan applied to the    *)
(* interpretations it returns, in every world of NumStacks columns.        *)
(***************************************************************************)

\* The longest list of candidate parses.
MaxParses == 2

LargeBoxObject == [form |-> "box", size |-> "large", color |-> Null]
Take(o) == [command |-> "take", entity |-> Entity(o)]
Move(o, r, t) == [command |-> "move", entity |-> Entity(o), location |-> Location(r, Entity(t))]

\* Candidate parses: commands that compile, that match no object, that lose
\* every literal to the physical laws, and that make the compiler throw a
\* TypeError, depending on the world.
PlannerCommands ==
    {Take(AnyObject),
     Take(LargeBoxObject),
     Move(BoxObject, "inside", BoxObject),
     Move(FloorObject, "leftof", AnyObject),
     Move(AnyObject, "beside", AnyObject)}

InitPlanner ==
    /\ objects \in InterpTables
    /\ stacks \in Columns(Ids, NumStacks)
    /\ holding \in {Null} \cup (Ids \ Placed(stacks))
    /\ arm = 0
    /\ parses \in UNION {[1..n -> PlannerCommands] : n \in 1..MaxParses}
    /\ interpreted = NotInterpreted
    /\ planned = NotPlanned
    /\ planPath = <<>>
    /\ synthesized = NotSynthesized
    /\ finished = NotSynthesized
    /\ pathAfter = <<>>
    /\ cmd = None
    /\ interpretation = NotRun
    /\ interpretationTs = NotRun
    /\ LawsIdle
    /\ WalkIdle
    /\ SearchIdle
    /\ EvalIdle

\* Interpreter.interpret on the candidate parses.
Interpret ==
    /\ interpreted = NotInterpreted
    /\ interpreted' = interpret(objects, stacks, parses)
    /\ UNCHANGED <<objects, lawVars, interpVars, walkVars, searchVars, evalVars, parses, arm,
                   planned, planPath, synthesized, finished, pathAfter>>

\* Planner.plan on the interpretations interpret returned.
PlanInterpretations ==
    /\ interpreted.kind = "returned"
    /\ planned = NotPlanned
    /\ planned' = plan(objects, WorldState(objects, stacks, holding, arm),
                       interpreted.interpretations)
    /\ UNCHANGED <<objects, lawVars, interpVars, walkVars, searchVars, evalVars, parses, arm,
                   interpreted, planPath, synthesized, finished, pathAfter>>

NextPlanner == Interpret \/ PlanInterpretations

SpecPlanner == InitPlanner /\ [][NextPlanner]_vars

\* ---- Claims settled under SpecPlanner ----

\* The kind of the failure interpretCommand throws for an empty formula.
NoInterpretation == ErrorThrown.kind

\* Candidate k has a description that matches no object at all.
MatchesNothing(k) ==
    \/ getValidObjects(objects, stacks, parses[k].entity) = Returned(<<>>)
    \/ /\ parses[k].command = "move"
       /\ getValidObjects(objects, stacks, parses[k].location.entity) = Returned(<<>>)

\* C13: when the only candidate parse has a description that matches zero
\* objects, interpret yields no successful interpretation, and the failure
\* it throws is of a kind other than the NoInterpretation failure thrown
\* for a formula that came out empty.
C13_UnresolvedReferenceDistinct ==
    (interpreted # NotInterpreted /\ Len(parses) = 1 /\ MatchesNothing(1))
    => /\ interpreted.kind = "threw"
       /\ interpreted.error.kind # NoInterpretation

\* The candidates interpretCommand succeeds on, and the interpretations
\* planInterpretation succeeds on.
Interprets == {k \in 1..Len(parses) : interpretCommand(objects, stacks, parses[k]).kind = "formula"}
Plans ==
    {k \in 1..Len(interpreted.interpretations) :
        planInterpretation(objects, WorldState(objects, stacks, holding, arm),
                           interpreted.interpretations[k].interpretation).kind = "plan"}

\* C14: interpret returns exactly the candidates interpretCommand succeeds
\* on, in input order, each with its formula, and throws nothing, when
\* there is such a candidate; when every candidate fails it throws the
\* failure of the first candidate. Planner.plan does the same with
\* planInterpretation over the interpretations it is given.
C14_SuccessesOrFirstError ==
    /\ interpreted # NotInterpreted
       => IF Interprets # {}
          THEN /\ interpreted.kind = "returned"
               /\ interpreted.error = NoError
               /\ Len(interpreted.interpretations) = Cardinality(Interprets)
               /\ \A i \in 1..Len(interpreted.interpretations) :
                     LET r == interpreted.interpretations[i]
                     IN /\ r.input \in Interprets
                        /\ r.parse = parses[r.input]
                        /\ r.interpretation =
                              interpretCommand(objects, stacks, parses[r.input]).formula
                        /\ \A j \in 1..(i - 1) :
                              interpreted.interpretations[j].input < r.input
          ELSE /\ interpreted.kind = "threw"
               /\ interpreted.interpretations = <<>>
               /\ interpreted.error =
                     ErrorOf(1, interpretCommand(objects, stacks, parses[1]).kind)
    /\ planned # NotPlanned
       => IF Plans # {}
          THEN /\ planned.kind = "returned"
               /\ planned.error = NoError
               /\ Len(planned.plans) = Cardinality(Plans)
               /\ \A i \in 1..Len(planned.plans) :
                     /\ planned.plans[i].input \in Plans
                     /\ \A j \in 1..(i - 1) :
                           planned.plans[j].input < planned.plans[i].input
          ELSE /\ planned.kind = "threw"
               /\ planned.plans = <<>>
               /\ planned.error =
                     ErrorOf(1, planInterpretation(objects,
                                   WorldState(objects, stacks, holding, arm),
                                   interpreted.interpretations[1].interpretation).kind)

\* C14 witness: the first of two candidates fails and the second succeeds;
\* interpret has returned the second alone, and Planner.plan, every one of
\* whose candidates failed, has thrown.
C14_Witness ==
    /\ Len(parses) = 2
    /\ Interprets = {2}
    /\ interpreted.kind = "returned"
    /\ Len(interpreted.interpretations) = 1
    /\ interpreted.interpretations[1].input = 2
    /\ planned.kind = "threw"

\* C18: the goal function planInterpretation hands to the search accepts
\* the configuration of the world if and only if some conjunction of the
\* goal formula has every literal true in it, for every goal formula
\* Planner.plan was given.
C18_GoalIffSatisfied ==
    planned # NotPlanned
    => \A k \in 1..Len(interpreted.interpretations) :
          isGoal(interpreted.interpretations[k].interpretation, Node(stacks, holding))
          <=> satisfies(interpreted.interpretations[k].interpretation, Node(stacks, holding))

\* C34: the start node planInterpretation hands to the search has the
\* world's stacks as its data, column by column, and the world's held
\* object as its holding (nothing held being null or undefined alike).
C34_StartNodeIsWorld ==
    planned # NotPlanned
    => LET startNode == StartNode(WorldState(objects, stacks, holding, arm))
       IN /\ startNode.data.array
          /\ startNode.data.value = stacks
          /\ \/ startNode.holding = holding
             \/ startNode.holding = Undefined /\ holding = Null

(***************************************************************************)
(* SpecWalk: walks of at most MaxWalk edges of outgoingEdges from every    *)
(* well-formed configuration (every object in exactly one place).          *)
(***************************************************************************)

\* The longest walk followed.
MaxWalk == 3

\* The well-formed nodes: every object placed once or held, at most one held.
WellFormedNodes(ids, n) ==
    {Node(st, h) : st \in Columns(ids, n), h \in ids \cup {Null}} \cap
    {nd \in [data : Columns(ids, n), holding : ids \cup {Null}] :
        /\ nd.holding \notin Placed(nd.data)
        /\ Placed(nd.data) \cup ({nd.holding} \ {Null}) = ids}

\* The object tables walked over: between them every rule of isValidStack
\* rejects some pair.
WalkTables ==
    InterpTables \cup
    { [a |-> [form |-> "box", size |-> "small", color |-> "red"],
       b |-> [form |-> "box", size |-> "small", color |-> "blue"],
       c |-> [form |-> "brick", size |-> "small", color |-> "green"]],
      [a |-> [form |-> "box", size |-> "large", color |-> "red"],
       b |-> [form |-> "pyramid", size |-> "large", color |-> "blue"],
       c |-> [form |-> "plank", size |-> "large", color |-> "green"]] }

InitWalk ==
    /\ objects \in WalkTables
    /\ walkNode \in WellFormedNodes(Ids, NumStacks)
    /\ walkError = "false"
    /\ walkSteps = 0
    /\ LawsIdle
    /\ InterpIdle
    /\ SearchIdle
    /\ PlannerIdle
    /\ EvalIdle

\* The walk follows one of the edges outgoingEdges returns.
FollowEdge ==
    /\ walkError = "false"
    /\ walkSteps < MaxWalk
    /\ ~outgoingEdges(objects, walkNode).threw
    /\ \E k \in 1..Len(outgoingEdges(objects, walkNode).edges) :
          walkNode' = outgoingEdges(objects, walkNode).edges[k].to
    /\ walkSteps' = walkSteps + 1
    /\ UNCHANGED <<objects, walkError, lawVars, interpVars, searchVars, plannerVars, evalVars>>

\* outgoingEdges throws: the walk ends on this walkNode.
EdgesThrow ==
    /\ walkError = "false"
    /\ outgoingEdges(objects, walkNode).threw
    /\ walkError' = TypeError
    /\ UNCHANGED <<objects, walkNode, walkSteps, lawVars, interpVars, searchVars, plannerVars, evalVars>>

NextWalk == FollowEdge \/ EdgesThrow

SpecWalk == InitWalk /\ [][NextWalk]_vars

\* ---- Claims settled under SpecWalk ----

\* How often an identifier occurs in the columns and in holding of a walkNode.
Occurrences(nd, id) ==
    Cardinality({<<i, k>> \in (1..Len(nd.data)) \X (1..Cardinality(Ids)) :
                    k <= Len(nd.data[i]) /\ nd.data[i][k] = id})
    + (IF nd.holding = id THEN 1 ELSE 0)

\* C5: in every configuration reachable from a well-formed start by
\* outgoingEdges transitions, each real object appears in exactly one place
\* (one position of one stack, or held), and holding is empty or one
\* identifier.
C5_EachObjectOnce ==
    /\ \A id \in Ids : Occurrences(walkNode, id) = 1
    /\ walkNode.holding \in Ids \cup {Null}
    /\ \A i \in 1..Len(walkNode.data) : Len(walkNode.data[i]) <= Cardinality(Ids)

\* C5 witness: after two transitions the walk stands on a configuration
\* with a stack of two, every object still in exactly one place.
C5_Witness ==
    /\ walkSteps = 2
    /\ \E i \in 1..Len(walkNode.data) : Len(walkNode.data[i]) = 2
    /\ \A id \in Ids : Occurrences(walkNode, id) = 1

\* The top of column i of nd may rest on column j: column j is empty, or
\* none of the six rules rejects that top on the top of column j.
MayRest(objs, nd, i, j) ==
    \/ Len(nd.data[j]) = 0
    \/ ~SixRulesReject(objs, nd.data[i][Len(nd.data[i])], nd.data[j][Len(nd.data[j])])

\* The ordered pairs of distinct columns (i, j) with column i nonempty, and
\* those of them the physical laws allow as a move.
MovePairs(nd) ==
    {p \in (1..Len(nd.data)) \X (1..Len(nd.data)) : p[1] # p[2] /\ Len(nd.data[p[1]]) > 0}
LegalMoves(objs, nd) == {p \in MovePairs(nd) : MayRest(objs, nd, p[1], p[2])}

\* t differs from nd only in that the top of column i of nd has been
\* removed and appended to column j.
IsMoveOf(t, nd, i, j) ==
    /\ t.holding = nd.holding
    /\ Len(t.data) = Len(nd.data)
    /\ t.data[i] = SubSeq(nd.data[i], 1, Len(nd.data[i]) - 1)
    /\ t.data[j] = nd.data[j] \o <<nd.data[i][Len(nd.data[i])]>>
    /\ \A k \in 1..Len(nd.data) : k \notin {i, j} => t.data[k] = nd.data[k]

\* C20: from a configuration holding nothing, outgoingEdges returns exactly
\* one edge for every ordered pair of distinct columns (i, j) with column i
\* nonempty whose top may rest on column j, and no edge for any other pair;
\* every edge has cost 1, leaves from the configuration, and leads to the
\* configuration that differs only by that move.
C20_OneEdgePerLegalMove ==
    walkNode.holding = Null
    => LET r == outgoingEdges(objects, walkNode)
       IN /\ ~r.threw
          /\ Len(r.edges) = Cardinality(LegalMoves(objects, walkNode))
          /\ \A k \in 1..Len(r.edges) :
                /\ r.edges[k].cost = 1
                /\ r.edges[k].from = walkNode
                /\ \E p \in LegalMoves(objects, walkNode) :
                      IsMoveOf(r.edges[k].to, walkNode, p[1], p[2])
          /\ \A p \in MovePairs(walkNode) :
                Cardinality({k \in 1..Len(r.edges) :
                                IsMoveOf(r.edges[k].to, walkNode, p[1], p[2])})
                = IF p \in LegalMoves(objects, walkNode) THEN 1 ELSE 0

\* C20 witness: the walk has followed an edge to a configuration holding
\* nothing from which one move onto an empty column is allowed, one move
\* onto another object is allowed and one move is forbidden.
C20_Witness ==
    /\ walkSteps >= 1
    /\ walkNode.holding = Null
    /\ \E p \in LegalMoves(objects, walkNode) : Len(walkNode.data[p[2]]) = 0
    /\ \E p \in LegalMoves(objects, walkNode) : Len(walkNode.data[p[2]]) > 0
    /\ MovePairs(walkNode) \ LegalMoves(objects, walkNode) # {}

\* The columns the held object of nd may be put on: the column is empty, or
\* none of the six rules rejects the held object on its top.
DropColumns(objs, nd) ==
    {j \in 1..Len(nd.data) :
        \/ Len(nd.data[j]) = 0
        \/ ~SixRulesReject(objs, nd.holding, nd.data[j][Len(nd.data[j])])}

\* C21: from a configuration holding an object h, outgoingEdges does not
\* fail and returns exactly one edge for each column j that h may rest on;
\* the target of that edge has h appended to column j, holds nothing and
\* has every other column unchanged.
C21_OneEdgePerDrop ==
    walkNode.holding # Null
    => LET r == outgoingEdges(objects, walkNode)
       IN /\ ~r.threw
          /\ Len(r.edges) = Cardinality(DropColumns(objects, walkNode))
          /\ \A j \in DropColumns(objects, walkNode) :
                Cardinality({k \in 1..Len(r.edges) :
                    r.edges[k].to =
                       Node([walkNode.data EXCEPT ![j] = Append(@, walkNode.holding)], Null)})
                = 1

\* Every adjacent pair (upper, lower) of every column of nd obeys the
\* physical laws: none of the six rules rejects the upper on the lower.
LawAbiding(objs, nd) ==
    \A i \in 1..Len(nd.data) : \A k \in 2..Len(nd.data[i]) :
        ~SixRulesReject(objs, nd.data[i][k], nd.data[i][k - 1])

\* C35: a transition of outgoingEdges from a configuration in which every
\* adjacent pair of every column obeys the physical laws leads to one in
\* which every adjacent pair does; so every configuration reachable from
\* a law-abiding start is law-abiding, though each transition tests only
\* the top two elements of the column it moves to.
C35_LawsPreserved ==
    [][LawAbiding(objects, walkNode) => LawAbiding(objects, walkNode')]_vars

\* C35 is witnessed: one transition from a law-abiding configuration has
\* put a third object on a column of two, and every adjacent pair of the
\* resulting column of three obeys the laws.
C35_Witness ==
    /\ walkSteps = 1
    /\ \E i \in 1..Len(walkNode.data) : Len(walkNode.data[i]) = 3
    /\ LawAbiding(objects, walkNode)

(***************************************************************************)
(* SpecSynth: the loop of planInterpretation that turns a path into a      *)
(* plan, and what Planner.plan makes of that plan, for every path of at    *)
(* most MaxPath configurations along edges of the state graph, given from  *)
(* its first configuration to its last or, as constructPath builds it,     *)
(* from its last to its first.                                             *)
(***************************************************************************)

\* The longest path, in configurations.
MaxPath == 3

Reverse(q) == [i \in 1..Len(q) |-> q[Len(q) + 1 - i]]

\* The walks of at most n configurations along outgoingEdges that start in
\* a well-formed configuration holding nothing.
RECURSIVE Walks(_, _)
Walks(objs, n) ==
    IF n = 1
    THEN {<<nd>> : nd \in {w \in WellFormedNodes(Ids, NumStacks) : w.holding = Null}}
    ELSE LET shorter == Walks(objs, n - 1)
         IN shorter \cup
            UNION {{Append(w, outgoingEdges(objs, w[Len(w)]).edges[k].to) :
                       k \in 1..Len(outgoingEdges(objs, w[Len(w)]).edges)} :
                   w \in {v \in shorter : Len(v) = n - 1}}

InitSynth ==
    /\ objects \in InterpTables
    /\ arm \in 0..(NumStacks - 1)
    /\ planPath \in Walks(objects, MaxPath) \cup {Reverse(w) : w \in Walks(objects, MaxPath)}
    /\ synthesized = NotSynthesized
    /\ finished = NotSynthesized
    /\ pathAfter = <<>>
    /\ parses = <<>>
    /\ interpreted = NotInterpreted
    /\ planned = NotPlanned
    /\ LawsIdle
    /\ InterpIdle
    /\ WalkIdle
    /\ SearchIdle
    /\ EvalIdle

\* The loop of planInterpretation over planPath and its return.
SynthesizePlan ==
    /\ synthesized = NotSynthesized
    /\ synthesized' = PlanEdges(objects, arm, planPath, 1, Plan(<<>>))
    /\ pathAfter' = PoppedPath(arm, planPath, 1)
    /\ UNCHANGED <<objects, lawVars, interpVars, walkVars, searchVars, evalVars, parses, interpreted,
                   arm, planned, planPath, finished>>

\* Planner.plan receives the plan and stores it in its result.
FinishPlan ==
    /\ synthesized.kind = "plan"
    /\ finished = NotSynthesized
    /\ finished' = Plan(FinishedPlan(synthesized.plan))
    /\ UNCHANGED <<objects, lawVars, interpVars, walkVars, searchVars, evalVars, parses, interpreted,
                   arm, planned, planPath, synthesized, pathAfter>>

NextSynth == SynthesizePlan \/ FinishPlan

SpecSynth == InitSynth /\ [][NextSynth]_vars

\* ---- Claims settled under SpecSynth ----

Actions == {"l", "r", "p", "d"}

MovedColumn(s1, s2, more) ==
    (CHOOSE i \in 1..Len(s1.data) :
        IF more THEN Len(s1.data[i]) > Len(s2.data[i])
        ELSE Len(s1.data[i]) < Len(s2.data[i])) - 1
ArmSteps(x, y) == Repeat(IF x < y THEN "r" ELSE "l", Abs(x - y))

\* The action sequence C17 describes for the edges of a path from edge i on,
\* the arm tracked at column armCol.
RECURSIVE EdgeByEdge(_, _, _)
EdgeByEdge(armCol, nodes, i) ==
    IF i > Len(nodes) - 1 THEN <<>>
    ELSE LET source == MovedColumn(nodes[i], nodes[i + 1], TRUE)
             destination == MovedColumn(nodes[i], nodes[i + 1], FALSE)
         IN ArmSteps(armCol, source) \o <<"p">> \o ArmSteps(source, destination)
            \o <<"d">> \o EdgeByEdge(destination, nodes, i + 1)

SearchTable ==
    [a |-> [form |-> "ball", size |-> "small", color |-> "red"],
     b |-> [form |-> "box", size |-> "large", color |-> "red"],
     c |-> [form |-> "brick", size |-> "small", color |-> "blue"]]

Timeouts == {0, 10}
ClockValues == {0, 1, 10001}
Heuristics == {"zero", "one"}

\* Goal formulas: one positive literal, or a disjunction of two.
GoalLiterals ==
    {Literal(r, <<x, y>>) : r \in {"ontop", "above", "leftof", "beside"},
                            x \in {"a", "b"}, y \in {"b", "c"}} \ 
    {Literal(r, <<"b", "b">>) : r \in Relations}
GoalFormulas ==
    {<<<<l>>>> : l \in GoalLiterals} \cup
    {<<<<Literal("ontop", <<"a", Floor>>)>>>>,
     <<<<Literal("above", <<"a", "b">>)>>, <<Literal("leftof", <<"c", "a">>)>>>>}

InitSearch ==
    /\ objects = SearchTable
    /\ start \in WellFormedNodes(Ids, NumStacks)
    /\ goal \in GoalFormulas
    /\ heuristics \in Heuristics
    /\ timeout \in Timeouts
    /\ elapsed = 0
    /\ cost = setValue(EmptyDictionary, start, 0)
    /\ fScore = setValue(EmptyDictionary, start, Heuristic(heuristics, start))
    /\ visitedNodes = {}
    /\ pendingNodes = add(<<>>, setValue(EmptyDictionary, start, 0), start)
    /\ cameFrom = EmptyDictionary
    /\ result = Running
    /\ pc = "loop"
    /\ LawsIdle
    /\ InterpIdle
    /\ WalkIdle
    /\ PlannerIdle
    /\ EvalIdle

\* The loop condition fails: the queue is empty, undefined is returned.
Exhausted ==
    /\ pc = "loop"
    /\ pendingNodes = <<>>
    /\ pc' = "exhausted"
    /\ result' = ExhaustedOutcome
    /\ UNCHANGED <<objects, start, goal, heuristics, timeout, elapsed, cost, fScore,
                   visitedNodes, pendingNodes, cameFrom, lawVars, interpVars, walkVars, plannerVars, evalVars>>

\* The clock read at the top of an iteration is past the timeout: break,
\* and undefined is returned.
TimedOut ==
    /\ pc = "loop"
    /\ pendingNodes # <<>>
    /\ \E now \in ClockValues :
          /\ now >= elapsed
          /\ now > timeout * 1000
          /\ elapsed' = now
    /\ pc' = "timeout"
    /\ result' = TimeoutOutcome
    /\ UNCHANGED <<objects, start, goal, heuristics, timeout, cost, fScore,
                   visitedNodes, pendingNodes, cameFrom, lawVars, interpVars, walkVars, plannerVars, evalVars>>

\* The dequeued node satisfies the goal: the result is returned.
Found ==
    /\ pc = "loop"
    /\ pendingNodes # <<>>
    /\ \E now \in ClockValues :
          /\ now >= elapsed
          /\ ~(now > timeout * 1000)
          /\ elapsed' = now
    /\ satisfies(goal, pendingNodes[1])
    /\ pendingNodes' = removeRoot(pendingNodes, cost)
    /\ result' = SearchResult(constructPath(cameFrom, pendingNodes[1]),
                               getValue(fScore, pendingNodes[1]))
    /\ pc' = "found"
    /\ UNCHANGED <<objects, start, goal, heuristics, timeout, cost, fScore,
                   visitedNodes, cameFrom, lawVars, interpVars, walkVars, plannerVars, evalVars>>

\* The dequeued node is no goal: it is marked visited and its neighbours
\* are relaxed.
Expand ==
    /\ pc = "loop"
    /\ pendingNodes # <<>>
    /\ \E now \in ClockValues :
          /\ now >= elapsed
          /\ ~(now > timeout * 1000)
          /\ elapsed' = now
    /\ ~satisfies(goal, pendingNodes[1])
    /\ ~getNeighbours(objects, pendingNodes[1]).threw
    /\ LET currentNode == pendingNodes[1]
           visited == visitedNodes \cup {toString(currentNode)}
           st == Relax(objects, heuristics, visited, currentNode,
                       getNeighbours(objects, currentNode).nodes,
                       [cost |-> cost, fScore |-> fScore,
                        pendingNodes |-> removeRoot(pendingNodes, cost),
                        cameFrom |-> cameFrom])
       IN /\ visitedNodes' = visited
          /\ cost' = st.cost
          /\ fScore' = st.fScore
          /\ pendingNodes' = st.pendingNodes
          /\ cameFrom' = st.cameFrom
    /\ UNCHANGED <<objects, start, goal, heuristics, timeout, result, pc,
                   lawVars, interpVars, walkVars, plannerVars, evalVars>>

\* The dequeued node is no goal and outgoingEdges throws on it: the
\* TypeError leaves aStarSearch.
ExpandThrows ==
    /\ pc = "loop"
    /\ pendingNodes # <<>>
    /\ \E now \in ClockValues :
          /\ now >= elapsed
          /\ ~(now > timeout * 1000)
          /\ elapsed' = now
    /\ ~satisfies(goal, pendingNodes[1])
    /\ getNeighbours(objects, pendingNodes[1]).threw
    /\ pendingNodes' = removeRoot(pendingNodes, cost)
    /\ visitedNodes' = visitedNodes \cup {toString(pendingNodes[1])}
    /\ pc' = "threw"
    /\ result' = SearchThrew
    /\ UNCHANGED <<objects, start, goal, heuristics, timeout, cost, fScore,
                   cameFrom, lawVars, interpVars, walkVars, plannerVars, evalVars>>

NextSearch == Exhausted \/ TimedOut \/ Found \/ Expand \/ ExpandThrows

SpecSearch == InitSearch /\ [][NextSearch]_vars

\* ---- Claims settled under SpecSearch ----

\* The nodes one edge away from a set of nodes (none from a node on which
\* outgoingEdges throws).
Successors(objs, nodes) ==
    UNION {{outgoingEdges(objs, nd).edges[k].to :
               k \in 1..Len(outgoingEdges(objs, nd).edges)} : nd \in nodes}

\* The least number of edges from a frontier at distance d to a node
\* satisfying the formula; -1 when there is none.
RECURSIVE BreadthFirst(_, _, _, _, _)
BreadthFirst(objs, formula, frontier, seen, d) ==
    IF \E nd \in frontier : satisfies(formula, nd) THEN d
    ELSE LET next == Successors(objs, frontier) \ seen
         IN IF next = {} THEN -1
            ELSE BreadthFirst(objs, formula, next, seen \cup next, d + 1)
ShortestDistance == BreadthFirst(objects, goal, {start}, {start}, 0)

\* C2: optimality. Whenever aStarSearch returns a result (the heuristic
\* here is the constant 0, which is consistent), the returned cost equals
\* the least number of edges from the start to a goal-satisfying node.
C2_CostIsShortestDistance ==
    (pc = "found" /\ heuristics = "zero") => result.cost = ShortestDistance

\* C3: the three ways the search ends give three distinguishable outcomes:
\* a result with path and cost when a goal node was dequeued, and two other
\* values, never the same, when the open set emptied and when the deadline
\* tripped: an exhausted search does not hand back what a timed-out search
\* hands back, nor the other way round.
C3_DistinctOutcomes ==
    /\ pc = "found" => result.kind = "result"
    /\ pc = "exhausted" => (result.kind # "result" /\ result # TimeoutOutcome)
    /\ pc = "timeout" => (result.kind # "result" /\ result # ExhaustedOutcome)

\* C4: if the start node satisfies the goal, the search returns a result
\* of cost 0 whatever the timeout and the clock: it never ends in a timeout.
C4_StartGoalNeverTimesOut ==
    (pc # "loop" /\ satisfies(goal, start))
    => /\ pc = "found"
       /\ result.kind = "result"
       /\ heuristics = "zero" => result.cost = 0

\* There is an edge of the graph from x to y.
IsEdge(objs, x, y) ==
    /\ ~outgoingEdges(objs, x).threw
    /\ \E k \in 1..Len(outgoingEdges(objs, x).edges) : outgoingEdges(objs, x).edges[k].to = y

\* C19: the path of a result aStarSearch returns starts at the start node,
\* ends at a node satisfying the goal, and every consecutive pair
\* (path[i], path[i+1]) is an edge of the graph from path[i] to path[i+1].
C19_PathFromStartToGoal ==
    pc = "found"
    => /\ result.path[1] = start
       /\ satisfies(goal, result.path[Len(result.path)])
       /\ \A i \in 1..(Len(result.path) - 1) :
             IsEdge(objects, result.path[i], result.path[i + 1])

\* C31: at the top of every iteration of the loop, the node the dequeue is
\* about to remove (the root of the queue) has the lowest f = g + h of all
\* nodes in the open set, f read from fScore as the loop recorded it.
C31_DequeuesLowestF ==
    (pc = "loop" /\ pendingNodes # <<>>)
    => \A p \in 1..Len(pendingNodes) :
          getValue(fScore, pendingNodes[1]) <= getValue(fScore, pendingNodes[p])

\* C32: the cost of a result aStarSearch returns is the sum of the costs of
\* the edges of the returned path, that is the number of its edges, every
\* edge costing 1: one less than the number of its nodes, whatever the
\* heuristic.
C32_CostIsPathLength ==
    pc = "found" => result.cost = Len(result.path) - 1

\* The search loop is sequential code that keeps running: whenever one of
\* its steps can be taken, one is taken.
SpecSearchFair == SpecSearch /\ WF_vars(NextSearch)

\* No node of the open set has been expanded before, and none is in the
\* open set twice.
NoReinsertion ==
    /\ \A p \in 1..Len(pendingNodes) : toString(pendingNodes[p]) \notin visitedNodes
    /\ \A p, q \in 1..Len(pendingNodes) : pendingNodes[p] = pendingNodes[q] => p = q

\* C33: when no configuration reachable from the start satisfies the goal,
\* the search ends by leaving its loop with the open set empty, unless the
\* deadline trips first; on the way no expanded node is put back into the
\* open set and no node is in it twice, so each is expanded at most once.
C33_ExhaustsOpenSet ==
    /\ [](pc = "loop" => NoReinsertion)
    /\ (ShortestDistance = -1) ~> (pc = "exhausted" \/ pc = "timeout")

(***************************************************************************)
(* SpecSame: the collections of aStarSearch keep one StateNode, nodeA, and *)
(* are asked for another, nodeB, for every pair of configurations over     *)
(* NumStacks columns in which an object is placed, held or neither.        *)
(***************************************************************************)

\* The costs a node is given in the cost map.
NodeCosts == {0, 1}

Configurations ==
    {nd \in [data : Columns(Ids, NumStacks), holding : Ids \cup {Null}] :
        nd.holding \notin Placed(nd.data)}

InitSame ==
    /\ objects = SearchTable
    /\ nodeA \in Configurations
    /\ nodeB \in Configurations
    /\ sameEntry = NotCompared
    /\ relationResult = None
    /\ runA = None
    /\ runB = None
    /\ LawsIdle
    /\ InterpIdle
    /\ WalkIdle
    /\ SearchIdle
    /\ PlannerIdle

\* nodeA is what aStarSearch does with a node it reaches: its cost is set,
\* it is added to pendingNodes and, once dequeued, to visitedNodes. nodeB
\* is what it does with a neighbour: distance compares it with the target
\* of an edge by compareNodes, and it is looked up in visitedNodes, in
\* pendingNodes and in cost.
LookUp ==
    /\ sameEntry = NotCompared
    /\ \E costA \in NodeCosts, costB \in NodeCosts :
          LET one == setValue(EmptyDictionary, nodeA, costA)
              both == setValue(one, nodeB, costB)
          IN sameEntry' =
                [compareNodes |-> compareNodes(nodeA, nodeB) = 0,
                 cost |-> HasValue(one, nodeB),
                 visitedNodes |-> toString(nodeB) \in {toString(nodeA)},
                 pendingNodes |-> contains(add(<<>>, one, nodeA), both, nodeB),
                 asked |-> TRUE]
    /\ UNCHANGED <<objects, lawVars, interpVars, walkVars, searchVars, plannerVars,
                   nodeA, nodeB, relationResult, runA, runB>>

NextSame == LookUp

SpecSame == InitSame /\ [][NextSame]_vars

\* ---- Claims settled under SpecSame ----

\* Equal columns, the same identifiers in the same positions, and equal holding.
SameConfiguration(a, b) == a.data = b.data /\ a.holding = b.holding

\* C22: node comparison, the cost map, the visited set and the open set
\* each treat nodeB as the entry nodeA if and only if the two have equal
\* stacks and equal holding.
C22_SameEntryIffSameConfiguration ==
    sameEntry.asked
    => /\ sameEntry.compareNodes <=> SameConfiguration(nodeA, nodeB)
       /\ sameEntry.cost <=> SameConfiguration(nodeA, nodeB)
       /\ sameEntry.visitedNodes <=> SameConfiguration(nodeA, nodeB)
       /\ sameEntry.pendingNodes <=> SameConfiguration(nodeA, nodeB)

(***************************************************************************)
(* SpecRelation: hasRelation applied to every relation and every pair of   *)
(* identifiers, the floor included, in every world of NumStacks columns.   *)
(***************************************************************************)

RelationLiterals ==
    {Literal(r, <<x, y>>) : r \in Relations, x \in Ids \cup {Floor}, y \in Ids \cup {Floor}}

InitRelation ==
    /\ objects = SearchTable
    /\ stacks \in Columns(Ids, NumStacks)
    /\ holding \in {Null} \cup (Ids \ Placed(stacks))
    /\ literal \in RelationLiterals
    /\ relationResult = None
    /\ cmd = None
    /\ interpretation = NotRun
    /\ interpretationTs = NotRun
    /\ lawsResult = None
    /\ lawsResultGraph = None
    /\ stackResult = None
    /\ nodeA = None
    /\ nodeB = None
    /\ sameEntry = NotCompared
    /\ runA = None
    /\ runB = None
    /\ WalkIdle
    /\ SearchIdle
    /\ PlannerIdle

\* hasRelation(relation, parent, child) on the arguments of the literal.
HasRelation ==
    /\ relationResult = None
    /\ relationResult' = hasRelation(stacks, literal.relation, literal.args[1], literal.args[2])
    /\ UNCHANGED <<objects, lawVars, interpVars, walkVars, searchVars, plannerVars,
                   nodeA, nodeB, sameEntry, runA, runB>>

NextRelation == HasRelation

SpecRelation == InitRelation /\ [][NextRelation]_vars

\* ---- Claims settled under SpecRelation ----

Parent == literal.args[1]
Child == literal.args[2]

\* x is at position k (from 1, bottom first) of column i.
At(x, i, k) == i \in 1..Len(stacks) /\ k \in 1..Len(stacks[i]) /\ stacks[i][k] = x
Positions == (1..Len(stacks)) \X (1..Cardinality(Ids))

\* Parent and child share a column, parent higher (dir = 1) or lower (dir = -1).
SameStackAndHigher(dir) ==
    \E p \in Positions, q \in Positions :
        /\ At(Parent, p[1], p[2])
        /\ At(Child, q[1], q[2])
        /\ p[1] = q[1]
        /\ IF dir = 1 THEN p[2] > q[2] ELSE p[2] < q[2]

\* C24: hasRelation finds above(parent, child) true if and only if parent
\* and child are in the same stack with parent higher, and below(parent,
\* child) true if and only if they are in the same stack with parent lower;
\* for objects in different stacks both are false.
C24_AboveBelowSameStack ==
    /\ (relationResult # None /\ literal.relation = "above")
       => relationResult = Bool(SameStackAndHigher(1))
    /\ (relationResult # None /\ literal.relation = "below")
       => relationResult = Bool(SameStackAndHigher(-1))

\* The child is a real object directly below the parent in its stack, or
\* the child is the floor and the parent is the bottom of its stack.
DirectlyOn ==
    \/ /\ Child \in Ids
       /\ \E p \in Positions : At(Parent, p[1], p[2]) /\ At(Child, p[1], p[2] - 1)
    \/ /\ Child = Floor
       /\ \E i \in 1..Len(stacks) : At(Parent, i, 1)

C26_UnplacedIsFalse ==
    (/\ relationResult # None
     /\ (Parent \notin Placed(stacks) \/ Child \notin Placed(stacks))
     /\ ~(literal.relation \in {"ontop", "inside"} /\ Child = Floor))
    => relationResult = "false"

(***************************************************************************)
(* SpecRuns: two runs of aStarSearch on the same graph, start node, goal   *)
(* and timeout, each with a wall clock of its own.                         *)
(***************************************************************************)

\* The latest iteration of the loop at which a clock may pass the deadline.
MaxLate == 3

\* A wall clock, as aStarSearch reads it at the top of each iteration: the
\* milliseconds since startTime are `early` up to iteration `late`, and
\* past ten seconds from iteration `late` on; late = 0 is a clock that
\* stays at `early` for the whole run.
Clocks == [early : {0, 1}, late : 0..MaxLate]
ReadingAt(clock, n) == IF clock.late # 0 /\ n >= clock.late THEN 10001 ELSE clock.early

\* The loop of aStarSearch from its iteration n on, on the collections
\* st = [cost, fScore, pendingNodes, cameFrom] and the visited set.
RECURSIVE SearchLoop(_, _, _, _, _, _, _, _)
SearchLoop(objs, formula, h, deadline, clock, visited, st, n) ==
    IF st.pendingNodes = <<>> THEN ExhaustedOutcome
    ELSE IF ReadingAt(clock, n) > deadline * 1000 THEN TimeoutOutcome
    ELSE LET currentNode == st.pendingNodes[1]
             seen == visited \cup {toString(currentNode)}
         IN IF satisfies(formula, currentNode)
            THEN SearchResult(constructPath(st.cameFrom, currentNode),
                              getValue(st.fScore, currentNode))
            ELSE IF getNeighbours(objs, currentNode).threw THEN SearchThrew
            ELSE SearchLoop(objs, formula, h, deadline, clock, seen,
                            Relax(objs, h, seen, currentNode,
                                  getNeighbours(objs, currentNode).nodes,
                                  [cost |-> st.cost, fScore |-> st.fScore,
                                   pendingNodes |-> removeRoot(st.pendingNodes, st.cost),
                                   cameFrom |-> st.cameFrom]),
                            n + 1)

\* aStarSearch(graph, start, goal, heuristics, timeout) under a wall clock.
aStarSearch(objs, from, formula, h, deadline, clock) ==
    SearchLoop(objs, formula, h, deadline, clock, {},
               [cost |-> setValue(EmptyDictionary, from, 0),
                fScore |-> setValue(EmptyDictionary, from, Heuristic(h, from)),
                pendingNodes |-> add(<<>>, setValue(EmptyDictionary, from, 0), from),
                cameFrom |-> EmptyDictionary],
               1)

InitRuns ==
    /\ objects = SearchTable
    /\ start \in WellFormedNodes(Ids, NumStacks)
    /\ goal \in GoalFormulas
    /\ heuristics = "zero"
    /\ timeout \in Timeouts
    /\ runA = Running
    /\ runB = Running
    /\ elapsed = 0
    /\ cost = None
    /\ fScore = None
    /\ visitedNodes = {}
    /\ pendingNodes = <<>>
    /\ cameFrom = None
    /\ result = None
    /\ pc = None
    /\ nodeA = None
    /\ nodeB = None
    /\ sameEntry = NotCompared
    /\ relationResult = None
    /\ LawsIdle
    /\ InterpIdle
    /\ WalkIdle
    /\ PlannerIdle

\* One run of aStarSearch, under some wall clock.
RunA ==
    /\ runA = Running
    /\ \E clock \in Clocks :
          runA' = aStarSearch(objects, start, goal, heuristics, timeout, clock)
    /\ UNCHANGED <<objects, lawVars, interpVars, walkVars, searchVars, plannerVars,
                   nodeA, nodeB, sameEntry, relationResult, runB>>

\* Another run on the same arguments, under some wall clock.
RunB ==
    /\ runB = Running
    /\ \E clock \in Clocks :
          runB' = aStarSearch(objects, start, goal, heuristics, timeout, clock)
    /\ UNCHANGED <<objects, lawVars, interpVars, walkVars, searchVars, plannerVars,
                   nodeA, nodeB, sameEntry, relationResult, runA>>

NextRuns == RunA \/ RunB

SpecRuns == InitRuns /\ [][NextRuns]_vars

\* ---- Claims settled under SpecRuns ----

\* C30: two runs on the same graph, start node, goal and timeout end alike,
\* with the same path and cost or the same failure, whatever the wall
\* clock reads in either run.
C30_SameOutcome ==
    (runA # Running /\ runB # Running) => runA = runB

====
